---------------------------- MODULE Spec2Model ----------------------------
(***************************************************************************)
(* Model of MinimizadorAFD (src/minimizador_afd.py): DFA minimisation by   *)
(* the table-filling algorithm.  One behaviour is one call of minimizar() *)
(* on one input automaton.  State identifiers are Python strings; they are *)
(* modelled as sequences of character codes so that sorted() and the       *)
(* class-name construction '{' + ','.join(sorted(classe)) + '}' are        *)
(* computed the way Python computes them.  Alphabet symbols are only ever  *)
(* compared for equality and are modelled as TLA+ strings.                 *)
(***************************************************************************)
EXTENDS Integers, Sequences, FiniteSets, TLC

VARIABLES
    afd,                \* self.afd: the automaton as loaded, never modified
    estados,            \* self.estados: list of states
    estados_finais,     \* self.estados_finais: set of accepting states
    transicoes,         \* self.transicoes: partial map (state, symbol) -> state
    tabela_chaves,      \* key (insertion) order of the dict self.tabela_marcacao
    tabela_marcacao,    \* self.tabela_marcacao: pair -> marked flag
    houve_mudanca,      \* local of _marcar_pares_iterativamente
    iteracao,           \* local of _marcar_pares_iterativamente
    classes,            \* local of minimizar: list of sets of states
    afd_minimizado,     \* the value minimizar returns (NONE until it returns)
    erro,               \* the exception minimizar ended with ("" when none)
    pc                  \* position inside minimizar

vars == <<afd, estados, estados_finais, transicoes, tabela_chaves,
          tabela_marcacao, houve_mudanca, iteracao, classes, afd_minimizado,
          erro, pc>>

-----------------------------------------------------------------------------
(* Character codes and identifiers *)

\* ',' , '{' and '}' of nome_classe
Virgula == 44
AbreChave == 123
FechaChave == 125

\* Python's None: the result of dict.get on a missing key, "not set yet"
NONE == <<>>

\* "q0", "q1", "q2", "q3", "q4", "qX"
q0 == <<113, 48>>
q1 == <<113, 49>>
q2 == <<113, 50>>
q3 == <<113, 51>>
q4 == <<113, 52>>
qX == <<113, 88>>
\* "p", "q", "r", "A"
sp == <<112>>
sq == <<113>>
sr == <<114>>
sA == <<65>>
\* "a", "b", "a,b"
sa == <<97>>
sb == <<98>>
sab == <<97, Virgula, 98>>

\* Longest input word tried when two automata or two states are compared
MaxComprimento == 5

Range(s) == {s[i] : i \in 1..Len(s)}

Min(a, b) == IF a < b THEN a ELSE b

-----------------------------------------------------------------------------
(* Python primitives used by the program *)

\* str.__lt__: lexicographic comparison by code point
RECURSIVE StrLess(_, _)
StrLess(s, t) ==
    IF s = <<>> THEN t # <<>>
    ELSE IF t = <<>> THEN FALSE
    ELSE IF Head(s) # Head(t) THEN Head(s) < Head(t)
    ELSE StrLess(Tail(s), Tail(t))

\* sorted(S) for a set of strings
RECURSIVE Sorted(_)
Sorted(S) ==
    IF S = {} THEN <<>>
    ELSE LET m == CHOOSE x \in S : \A y \in S \ {x} : StrLess(x, y)
         IN  <<m>> \o Sorted(S \ {m})

\* ','.join(seq)
RECURSIVE Join(_)
Join(seq) ==
    IF seq = <<>> THEN <<>>
    ELSE IF Len(seq) = 1 THEN seq[1]
    ELSE seq[1] \o <<Virgula>> \o Join(Tail(seq))

\* list.index(e) if e in list else -1   (1-based here, -1 when absent)
IndexOf(lista, e) ==
    IF e \in Range(lista)
    THEN CHOOSE i \in 1..Len(lista) :
            lista[i] = e /\ \A j \in 1..(i - 1) : lista[j] # e
    ELSE -1

\* transicoes.get(e, {}).get(simbolo): the destination, or None
Destino(trans, e, simbolo) ==
    IF <<e, simbolo>> \in DOMAIN trans THEN trans[<<e, simbolo>>] ELSE NONE

\* every ordering of a finite set: the orders list(set(...)) can produce
Ordenacoes(S) ==
    {s \in [1..Cardinality(S) -> S] : \A x \in S : \E i \in DOMAIN s : s[i] = x}

-----------------------------------------------------------------------------
(* Etapa 1: unreachable states *)

\* the "for simbolo in self.alfabeto" loop of the BFS for one dequeued state;
\* st = <<alcancaveis, fila>>
RECURSIVE VisitarSimbolos(_, _, _, _, _)
VisitarSimbolos(trans, alf, atual, i, st) ==
    IF i > Len(alf) THEN st
    ELSE LET prox == Destino(trans, atual, alf[i])
         IN  IF prox # NONE /\ prox \notin st[1]
             THEN VisitarSimbolos(trans, alf, atual, i + 1,
                                  <<st[1] \cup {prox}, Append(st[2], prox)>>)
             ELSE VisitarSimbolos(trans, alf, atual, i + 1, st)

\* the "while fila" loop
RECURSIVE BuscaEmLargura(_, _, _)
BuscaEmLargura(trans, alf, st) ==
    IF st[2] = <<>> THEN st[1]
    ELSE BuscaEmLargura(trans, alf,
            VisitarSimbolos(trans, alf, Head(st[2]), 1, <<st[1], Tail(st[2])>>))

encontrar_estados_alcancaveis(trans, alf, inicial) ==
    BuscaEmLargura(trans, alf, <<{inicial}, <<inicial>>>>)

MembroDe(S, e) == e \in S

FiltrarEstados(lista, alc) == SelectSeq(lista, LAMBDA e : MembroDe(alc, e))

FiltrarTransicoes(trans, lista) ==
    [p \in {x \in DOMAIN trans : x[1] \in Range(lista)} |-> trans[p]]

-----------------------------------------------------------------------------
(* Etapa 2: the marking table *)

\* the pairs (estados[i], estados[j]), i < j, in the order of the two loops
RECURSIVE ParesNaOrdem(_, _, _)
ParesNaOrdem(lista, i, j) ==
    IF i > Len(lista) THEN <<>>
    ELSE IF j > Len(lista) THEN ParesNaOrdem(lista, i + 1, i + 2)
    ELSE <<(<<lista[i], lista[j]>>)>> \o ParesNaOrdem(lista, i, j + 1)

\* a variant that returns the pair as given, without ordering it by position
obter_par_sem_ordenar(lista, e1, e2) == <<e1, e2>>

obter_par_ordenado(lista, e1, e2) ==
    IF IndexOf(lista, e1) < IndexOf(lista, e2) THEN <<e1, e2>> ELSE <<e2, e1>>

\* a variant that takes a move defined on one state only as distinguishing
MarcaPorTransicaoIndefinida(tab, lista, trans, alf, par) ==
    \E i \in 1..Len(alf) :
        LET destino1 == Destino(trans, par[1], alf[i])
            destino2 == Destino(trans, par[2], alf[i])
        IN  /\ destino1 # destino2
            /\ \/ destino1 = NONE
               \/ destino2 = NONE
               \/ LET par_destino == obter_par_ordenado(lista, destino1, destino2)
                  IN  par_destino \in DOMAIN tab /\ tab[par_destino]

\* the body of "for simbolo in self.alfabeto" for one unmarked pair: whether
\* some symbol makes the pair marked
MarcaPorTransicao(tab, lista, trans, alf, par) ==
    \E i \in 1..Len(alf) :
        LET destino1 == Destino(trans, par[1], alf[i])
            destino2 == Destino(trans, par[2], alf[i])
        IN  /\ destino1 # NONE
            /\ destino2 # NONE
            /\ destino1 # destino2
            /\ LET par_destino == obter_par_ordenado(lista, destino1, destino2)
               IN  par_destino \in DOMAIN tab /\ tab[par_destino]

\* a pass that writes the flag of every pair, marked or not, from the
\* transition rule alone
RECURSIVE VarrerParesReescrevendo(_, _, _, _, _, _)
VarrerParesReescrevendo(chaves, k, tab, lista, trans, alf) ==
    IF k > Len(chaves) THEN tab
    ELSE VarrerParesReescrevendo(chaves, k + 1,
            [tab EXCEPT ![chaves[k]] =
                MarcaPorTransicao(tab, lista, trans, alf, chaves[k])],
            lista, trans, alf)

\* one pass of "for par in self.tabela_marcacao": marks are written in place,
\* so a mark made early in the pass is seen later in the same pass
RECURSIVE VarrerPares(_, _, _, _, _, _)
VarrerPares(chaves, k, tab, lista, trans, alf) ==
    IF k > Len(chaves) THEN tab
    ELSE LET par == chaves[k]
         IN  IF ~tab[par] /\ MarcaPorTransicao(tab, lista, trans, alf, par)
             THEN VarrerPares(chaves, k + 1, [tab EXCEPT ![par] = TRUE],
                              lista, trans, alf)
             ELSE VarrerPares(chaves, k + 1, tab, lista, trans, alf)

MarcarTriviais(tab, finais) ==
    [par \in DOMAIN tab |->
        IF (par[1] \in finais) # (par[2] \in finais) THEN TRUE ELSE tab[par]]


-----------------------------------------------------------------------------
(* Etapa 3: equivalence classes *)

\* "for classe in classes: if e in classe: achada = classe": the position of
\* the last class that contains e, 0 (None) when there is none
IndiceDaClasse(cls, e) ==
    IF \E i \in 1..Len(cls) : e \in cls[i]
    THEN CHOOSE i \in 1..Len(cls) :
            e \in cls[i] /\ \A j \in (i + 1)..Len(cls) : e \notin cls[j]
    ELSE 0

\* list.remove(x): drops the first element equal to x
RemoverPrimeiro(lista, x) ==
    LET i == IndexOf(lista, x)
    IN  SubSeq(lista, 1, i - 1) \o SubSeq(lista, i + 1, Len(lista))

\* a variant that leaves the second class in the list when it unites two
UnirClassesSemRemover(cls, par) ==
    LET i1 == IndiceDaClasse(cls, par[1])
        i2 == IndiceDaClasse(cls, par[2])
    IN  IF i1 # 0 /\ i2 # 0 /\ cls[i1] # cls[i2]
        THEN Append(RemoverPrimeiro(cls, cls[i1]), cls[i1] \cup cls[i2])
        ELSE cls

\* the body of the loop for one unmarked pair
UnirClasses(cls, par) ==
    LET i1 == IndiceDaClasse(cls, par[1])
        i2 == IndiceDaClasse(cls, par[2])
    IN  IF i1 # 0 /\ i2 # 0 /\ cls[i1] # cls[i2]
        THEN Append(RemoverPrimeiro(RemoverPrimeiro(cls, cls[i1]), cls[i2]),
                    cls[i1] \cup cls[i2])
        ELSE cls

\* "for par, marcado in self.tabela_marcacao.items()"
RECURSIVE UnirNaoMarcados(_, _, _, _)
UnirNaoMarcados(chaves, k, tab, cls) ==
    IF k > Len(chaves) THEN cls
    ELSE IF ~tab[chaves[k]]
         THEN UnirNaoMarcados(chaves, k + 1, tab, UnirClasses(cls, chaves[k]))
         ELSE UnirNaoMarcados(chaves, k + 1, tab, cls)

encontrar_classes_equivalencia(lista, chaves, tab) ==
    UnirNaoMarcados(chaves, 1, tab, [i \in 1..Len(lista) |-> {lista[i]}])

-----------------------------------------------------------------------------
(* Etapa 4: the minimised automaton *)

nome_classe(classe) == <<AbreChave>> \o Join(Sorted(classe)) \o <<FechaChave>>

\* dict estado_para_classe: a state of several classes keeps the last name
estado_para_classe(cls) ==
    [e \in UNION Range(cls) |-> nome_classe(cls[IndiceDaClasse(cls, e)])]

\* the transitions written for class i from its representative rep[i]
TransicoesDaClasse(cls, i, rep, trans, alf) ==
    LET mapa == estado_para_classe(cls)
        nome_origem == nome_classe(cls[i])
        definidos == {a \in Range(alf) : Destino(trans, rep[i], a) # NONE}
    IN  [p \in {<<nome_origem, a>> : a \in definidos} |->
            mapa[Destino(trans, rep[i], p[2])]]

\* "for classe in classes": novas_transicoes[nome_origem] = {} replaces what an
\* earlier class of the same name wrote
RECURSIVE NovasTransicoes(_, _, _, _, _, _)
NovasTransicoes(cls, i, rep, trans, alf, acc) ==
    IF i > Len(cls) THEN acc
    ELSE LET nome_origem == nome_classe(cls[i])
             resto == [p \in {x \in DOMAIN acc : x[1] # nome_origem} |-> acc[p]]
         IN  NovasTransicoes(cls, i + 1, rep, trans, alf,
                             TransicoesDaClasse(cls, i, rep, trans, alf) @@ resto)

\* list(classe)[0] for every class: any member, by the set's iteration order
Representantes(cls) ==
    {rep \in [1..Len(cls) -> UNION Range(cls)] :
        \A i \in 1..Len(cls) : rep[i] \in cls[i]}

\* a dict lookup estado_para_classe[...] of _construir_afd_minimizado fails
LevantaKeyError(cls, rep, inicial, finais, trans, alf) ==
    LET chaves == UNION Range(cls)
    IN  \/ inicial \notin chaves
        \/ \E ef \in finais : ef \notin chaves
        \/ \E i \in 1..Len(cls) : \E a \in Range(alf) :
              /\ Destino(trans, rep[i], a) # NONE
              /\ Destino(trans, rep[i], a) \notin chaves

NovosEstadosFinais(cls, finais) == {estado_para_classe(cls)[ef] : ef \in finais}

construir_afd_minimizado(cls, rep, ordem_finais, inicial, trans, alf) ==
    [estados        |-> [i \in 1..Len(cls) |-> nome_classe(cls[i])],
     alfabeto       |-> alf,
     estado_inicial |-> estado_para_classe(cls)[inicial],
     estados_finais |-> ordem_finais,
     transicoes     |-> NovasTransicoes(cls, 1, rep, trans, alf, <<>>)]

-----------------------------------------------------------------------------
(* Input automata *)

\* The general inputs have at most MaxEstados states and MaxSimbolos symbols,
\* and at most MaxEntradas (state, symbol) slots in the transition table
MaxEstados == 3
MaxSimbolos == 2
MaxEntradas == 6

EstadosUniverso == <<q0, q1, q2, q3, q4>>
AlfabetoUniverso == <<"a", "b", "c">>

Automato(lista, alf, inicial, finais, trans) ==
    [estados        |-> lista,
     alfabeto       |-> alf,
     estado_inicial |-> inicial,
     estados_finais |-> finais,
     transicoes     |-> trans]

\* q3 unreachable; q0, q1, q2 pairwise distinguishable
CenarioA ==
    [estados        |-> <<q0, q1, q2, q3>>,
     alfabeto       |-> <<"a", "b">>,
     estado_inicial |-> q0,
     estados_finais |-> {q2},
     transicoes     |->
        (<<q0, "a">> :> q1) @@ (<<q0, "b">> :> q0) @@
        (<<q1, "a">> :> q2) @@ (<<q1, "b">> :> q0) @@
        (<<q2, "a">> :> q2) @@ (<<q2, "b">> :> q2) @@
        (<<q3, "a">> :> q3) @@ (<<q3, "b">> :> q3)]

\* q3 unreachable; q0 and q1 move alike; total transitions
CenariosComInalcancavel ==
    {[estados        |-> <<q0, q1, q2, q3>>,
      alfabeto       |-> <<"a", "b">>,
      estado_inicial |-> q0,
      estados_finais |-> f,
      transicoes     |->
        (<<q0, "a">> :> q1) @@ (<<q0, "b">> :> q2) @@
        (<<q1, "a">> :> q0) @@ (<<q1, "b">> :> q2) @@
        (<<q2, "a">> :> q2) @@ (<<q2, "b">> :> q2) @@
        (<<q3, "a">> :> q0) @@ (<<q3, "b">> :> q3)] :
        f \in SUBSET {q0, q1, q2, q3}}

\* p, q, r, A with partial transitions: p: a->p, b->q;  q: b->r;  r: a->A
CenariosParciais ==
    {[estados        |-> <<sp, sq, sr, sA>>,
      alfabeto       |-> <<"a", "b">>,
      estado_inicial |-> sp,
      estados_finais |-> f,
      transicoes     |->
        (<<sp, "a">> :> sp) @@ (<<sp, "b">> :> sq) @@
        (<<sq, "b">> :> sr) @@ (<<sr, "a">> :> sA)] :
        f \in SUBSET {sp, sq, sr, sA}}

\* states named "a", "b" and "a,b"; total transitions
CenariosVirgula ==
    {[estados        |-> <<sa, sb, sab>>,
      alfabeto       |-> <<"a", "b">>,
      estado_inicial |-> sa,
      estados_finais |-> f,
      transicoes     |->
        (<<sa, "a">> :> sb) @@ (<<sa, "b">> :> sab) @@
        (<<sb, "a">> :> sa) @@ (<<sb, "b">> :> sab) @@
        (<<sab, "a">> :> sab) @@ (<<sab, "b">> :> sab)] :
        f \in SUBSET {sa, sb, sab}}

\* the validation of the data model: start in states, accepting states in
\* states, every transition source and destination in states
BemFormado(A) ==
    /\ A.estado_inicial \in Range(A.estados)
    /\ A.estados_finais \subseteq Range(A.estados)
    /\ \A p \in DOMAIN A.transicoes :
          p[1] \in Range(A.estados) /\ A.transicoes[p] \in Range(A.estados)

-----------------------------------------------------------------------------
(* minimizar() *)

alfabeto == afd.alfabeto
estado_inicial == afd.estado_inicial

\* __init__ on the loaded automaton A
Construido(A) ==
    /\ afd = A
    /\ estados = A.estados
    /\ estados_finais = A.estados_finais
    /\ transicoes = A.transicoes
    /\ tabela_chaves = <<>>
    /\ tabela_marcacao = <<>>
    /\ houve_mudanca = FALSE
    /\ iteracao = 0
    /\ classes = <<>>
    /\ afd_minimizado = NONE
    /\ erro = ""
    /\ pc = "inicio"

\* every automaton of the data model over a prefix of EstadosUniverso and a
\* prefix of AlfabetoUniverso, within the bounds: start among the states, accepting states among
\* the states, transitions a partial function into the states
InitGeral ==
    \E n \in 1..Min(MaxEstados, Len(EstadosUniverso)),
       k \in 0..Min(MaxSimbolos, Len(AlfabetoUniverso)) :
        LET lista == SubSeq(EstadosUniverso, 1, n)
            alf == SubSeq(AlfabetoUniverso, 1, k)
        IN  /\ n * k <= MaxEntradas
            /\ \E i \in Range(lista), f \in SUBSET Range(lista),
                  X \in SUBSET (Range(lista) \X Range(alf)) :
                   \E t \in [X -> Range(lista)] :
                       Construido(Automato(lista, alf, i, f, t))

\* every automaton over q0, q1, q2 and the one symbol "a": start among the
\* states, accepting states among the states, transitions a partial function
CenariosUmSimbolo ==
    \E i \in {q0, q1, q2}, f \in SUBSET {q0, q1, q2}, X \in SUBSET {q0, q1, q2} :
        \E t \in [{<<e, "a">> : e \in X} -> {q0, q1, q2}] :
            Construido(Automato(<<q0, q1, q2>>, <<"a">>, i, f, t))

\* the automata of InitGeral with one state less and two transition-table
\* cells less than the bounds allow
InitPequeno ==
    \E n \in 1..Min(MaxEstados - 1, Len(EstadosUniverso)),
       k \in 0..Min(MaxSimbolos, Len(AlfabetoUniverso)) :
        LET lista == SubSeq(EstadosUniverso, 1, n)
            alf == SubSeq(AlfabetoUniverso, 1, k)
        IN  /\ n * k <= MaxEntradas - 2
            /\ \E i \in Range(lista), f \in SUBSET Range(lista),
                  X \in SUBSET (Range(lista) \X Range(alf)) :
                   \E t \in [X -> Range(lista)] :
                       Construido(Automato(lista, alf, i, f, t))

InitCenarios ==
    \E A \in {CenarioA} \cup CenariosComInalcancavel \cup CenariosParciais
                \cup CenariosVirgula :
        Construido(A)

\* automata over q0, q1 and the symbol "a" in which the start state, an
\* accepting state, a transition source or a destination may be "qX"
InitMalformado ==
    \E i \in {q0, q1, qX}, f \in SUBSET {q0, q1, qX},
       X \in SUBSET ({q0, q1, qX} \X {"a"}) :
        \E t \in [X -> {q0, q1, qX}] :
            /\ ~BemFormado(Automato(<<q0, q1>>, <<"a">>, i, f, t))
            /\ Construido(Automato(<<q0, q1>>, <<"a">>, i, f, t))

Init == InitGeral \/ InitCenarios

\* automata over q0, q1 and the alphabet <<"a">> in which some transition is
\* on the symbol "b", which the alphabet does not list
InitForaDoAlfabeto ==
    \E i \in {q0, q1}, f \in SUBSET {q0, q1},
       X \in SUBSET ({q0, q1} \X {"a", "b"}) :
        \E t \in [X -> {q0, q1}] :
            /\ \E x \in X : x[2] = "b"
            /\ Construido(Automato(<<q0, q1>>, <<"a">>, i, f, t))

InitQualquer == Init \/ InitMalformado \/ InitForaDoAlfabeto

\* _remover_estados_inalcancaveis
RemoverEstadosInalcancaveis ==
    /\ pc = "inicio"
    /\ LET alcancaveis ==
               encontrar_estados_alcancaveis(transicoes, alfabeto, estado_inicial)
           novos == FiltrarEstados(estados, alcancaveis)
       IN  /\ estados' = novos
           /\ estados_finais' = estados_finais \cap alcancaveis
           /\ transicoes' = FiltrarTransicoes(transicoes, novos)
    /\ pc' = "etapa2"
    /\ UNCHANGED <<afd, tabela_chaves, tabela_marcacao, houve_mudanca, iteracao,
                   classes, afd_minimizado, erro>>

\* _inicializar_tabela
InicializarTabela ==
    /\ pc = "etapa2"
    /\ tabela_chaves' = ParesNaOrdem(estados, 1, 2)
    /\ tabela_marcacao' = [par \in Range(ParesNaOrdem(estados, 1, 2)) |-> FALSE]
    /\ pc' = "triviais"
    /\ UNCHANGED <<afd, estados, estados_finais, transicoes, houve_mudanca,
                   iteracao, classes, afd_minimizado, erro>>

\* _marcar_pares_triviais
MarcarParesTriviais ==
    /\ pc = "triviais"
    /\ tabela_marcacao' = MarcarTriviais(tabela_marcacao, estados_finais)
    /\ pc' = "exibir"
    /\ UNCHANGED <<afd, estados, estados_finais, transicoes, tabela_chaves,
                   houve_mudanca, iteracao, classes, afd_minimizado, erro>>

\* exibir_tabela_marcacao after the trivial marking, then the two
\* assignments that open _marcar_pares_iterativamente
ExibirTabelaMarcacao ==
    /\ pc = "exibir"
    /\ estados # <<>>
    /\ iteracao' = 0
    /\ houve_mudanca' = TRUE
    /\ pc' = "iterar"
    /\ UNCHANGED <<afd, estados, estados_finais, transicoes, tabela_chaves,
                   tabela_marcacao, classes, afd_minimizado, erro>>

\* exibir_tabela_marcacao: max() of an empty sequence
ExibirTabelaValueError ==
    /\ pc = "exibir"
    /\ estados = <<>>
    /\ erro' = "ValueError"
    /\ pc' = "erro"
    /\ UNCHANGED <<afd, estados, estados_finais, transicoes, tabela_chaves,
                   tabela_marcacao, houve_mudanca, iteracao, classes,
                   afd_minimizado>>

\* a pass that raises houve_mudanca on every marked pair it meets instead of
\* skipping it
PassoSemPularMarcados ==
    /\ pc = "iterar"
    /\ houve_mudanca
    /\ iteracao' = iteracao + 1
    /\ tabela_marcacao' =
          VarrerPares(tabela_chaves, 1, tabela_marcacao, estados, transicoes,
                      alfabeto)
    /\ houve_mudanca' = (\E par \in DOMAIN tabela_marcacao' : tabela_marcacao'[par])
    /\ UNCHANGED <<afd, estados, estados_finais, transicoes, tabela_chaves,
                   classes, afd_minimizado, erro, pc>>

\* one pass of the while loop of _marcar_pares_iterativamente
PassoIterativo ==
    /\ pc = "iterar"
    /\ houve_mudanca
    /\ iteracao' = iteracao + 1
    /\ tabela_marcacao' =
          VarrerPares(tabela_chaves, 1, tabela_marcacao, estados, transicoes,
                      alfabeto)
    /\ houve_mudanca' = (tabela_marcacao' # tabela_marcacao)
    /\ UNCHANGED <<afd, estados, estados_finais, transicoes, tabela_chaves,
                   classes, afd_minimizado, erro, pc>>

\* the loop has ended (the second exibir_tabela_marcacao changes nothing);
\* _encontrar_classes_equivalencia
EncontrarClassesEquivalencia ==
    /\ pc = "iterar"
    /\ ~houve_mudanca
    /\ classes' =
          encontrar_classes_equivalencia(estados, tabela_chaves, tabela_marcacao)
    /\ pc' = "etapa4"
    /\ UNCHANGED <<afd, estados, estados_finais, transicoes, tabela_chaves,
                   tabela_marcacao, houve_mudanca, iteracao, afd_minimizado, erro>>

\* _construir_afd_minimizado returns, and so does minimizar
ConstruirAfdMinimizado ==
    /\ pc = "etapa4"
    /\ \E rep \in Representantes(classes) :
          /\ ~LevantaKeyError(classes, rep, estado_inicial, estados_finais,
                              transicoes, alfabeto)
          /\ \E ordem \in Ordenacoes(NovosEstadosFinais(classes, estados_finais)) :
                afd_minimizado' =
                    construir_afd_minimizado(classes, rep, ordem, estado_inicial,
                                             transicoes, alfabeto)
    /\ pc' = "fim"
    /\ UNCHANGED <<afd, estados, estados_finais, transicoes, tabela_chaves,
                   tabela_marcacao, houve_mudanca, iteracao, classes, erro>>

\* _construir_afd_minimizado fails on a dict lookup
ConstruirKeyError ==
    /\ pc = "etapa4"
    /\ \E rep \in Representantes(classes) :
          LevantaKeyError(classes, rep, estado_inicial, estados_finais,
                          transicoes, alfabeto)
    /\ erro' = "KeyError"
    /\ pc' = "erro"
    /\ UNCHANGED <<afd, estados, estados_finais, transicoes, tabela_chaves,
                   tabela_marcacao, houve_mudanca, iteracao, classes,
                   afd_minimizado>>

Next ==
    \/ RemoverEstadosInalcancaveis
    \/ InicializarTabela
    \/ MarcarParesTriviais
    \/ ExibirTabelaMarcacao
    \/ PassoIterativo
    \/ EncontrarClassesEquivalencia
    \/ ConstruirAfdMinimizado

NextMalformado ==
    \/ Next
    \/ ExibirTabelaValueError
    \/ ConstruirKeyError

\* minimizar on the automata of the data model
Spec == Init /\ [][Next]_vars

\* minimizar on whatever the JSON file holds
SpecMalformado == InitQualquer /\ [][NextMalformado]_vars

\* the steps of minimizar up to the end of the loop of
\* _marcar_pares_iterativamente
AteOFimDoLaco ==
    \/ RemoverEstadosInalcancaveis
    \/ InicializarTabela
    \/ MarcarParesTriviais
    \/ ExibirTabelaMarcacao
    \/ PassoIterativo

InitJusto == InitPequeno \/ CenariosUmSimbolo \/ InitCenarios

\* minimizar is one sequential call: while a statement is left to run the
\* interpreter runs it
SpecJusto == InitJusto /\ [][Next]_vars /\ WF_vars(AteOFimDoLaco)

-----------------------------------------------------------------------------
(* Languages: a missing transition is "no move", the word is rejected *)

\* the state reached from s by the word w, None when a move is missing
RECURSIVE Executar(_, _, _, _)
Executar(trans, s, w, i) ==
    IF i > Len(w) THEN s
    ELSE IF Destino(trans, s, w[i]) = NONE THEN NONE
    ELSE Executar(trans, Destino(trans, s, w[i]), w, i + 1)

AceitaDe(trans, finais, s, w) ==
    LET r == Executar(trans, s, w, 1) IN r # NONE /\ r \in finais

\* some word of length <= MaxComprimento is accepted from exactly one of s, t
Distinguiveis(trans, finais, alf, s, t) ==
    \E n \in 0..MaxComprimento : \E w \in [1..n -> Range(alf)] :
        AceitaDe(trans, finais, s, w) # AceitaDe(trans, finais, t, w)

\* the states reachable from the start state, as a least fixpoint
RECURSIVE Fecho(_, _, _)
Fecho(trans, alf, S) ==
    LET mais == S \cup ({Destino(trans, s, a) : s \in S, a \in Range(alf)} \ {NONE})
    IN  IF mais = S THEN S ELSE Fecho(trans, alf, mais)

Alcancaveis(A) == Fecho(A.transicoes, A.alfabeto, {A.estado_inicial})

Terminou == pc = "fim"

-----------------------------------------------------------------------------
(* C1 *)

\* C1 (language preservation): when minimizar returns, every word over the
\* alphabet of length <= MaxComprimento is accepted by the input automaton if
\* and only if it is accepted by the returned automaton.
C1_PreservaLinguagem ==
    Terminou =>
        \A n \in 0..MaxComprimento : \A w \in [1..n -> Range(alfabeto)] :
            AceitaDe(afd.transicoes, afd.estados_finais, afd.estado_inicial, w)
            <=> AceitaDe(afd_minimizado.transicoes,
                         Range(afd_minimizado.estados_finais),
                         afd_minimizado.estado_inicial, w)

-----------------------------------------------------------------------------
(* C2 *)

\* C2 (minimality): when minimizar returns, every state of the returned
\* automaton is reachable from its start state, any two distinct states of it
\* are told apart by some word, no unreachable input state is a member of a
\* class, and on Scenario A the result has exactly 3 states.
C2_Minimo ==
    Terminou =>
        /\ Range(afd_minimizado.estados) \subseteq Alcancaveis(afd_minimizado)
        /\ \A i, j \in 1..Len(afd_minimizado.estados) :
              i # j =>
                Distinguiveis(afd_minimizado.transicoes,
                              Range(afd_minimizado.estados_finais), alfabeto,
                              afd_minimizado.estados[i], afd_minimizado.estados[j])
        /\ UNION Range(classes) \subseteq Alcancaveis(afd)
        /\ (afd = CenarioA => Len(afd_minimizado.estados) = 3)

-----------------------------------------------------------------------------
(* C3 *)

ClassesEncontradas == pc \in {"etapa4", "fim"}

\* C3 (partition well-formedness): the classes returned by
\* _encontrar_classes_equivalencia are non-empty and pairwise disjoint, their
\* union is exactly the set of states reachable from the start state, and no
\* class holds both an accepting and a non-accepting state.
C3_ParticaoBemFormada ==
    ClassesEncontradas =>
        /\ \A i \in 1..Len(classes) : classes[i] # {}
        /\ \A i, j \in 1..Len(classes) :
              i # j => classes[i] \cap classes[j] = {}
        /\ UNION Range(classes) = Alcancaveis(afd)
        /\ \A i \in 1..Len(classes) :
              \/ classes[i] \subseteq afd.estados_finais
              \/ classes[i] \cap afd.estados_finais = {}

\* classes were found for an input with an unreachable state, an accepting and
\* a non-accepting reachable state, and a class of two states
C3_Testemunha ==
    /\ ClassesEncontradas
    /\ Alcancaveis(afd) # Range(afd.estados)
    /\ Len(classes) >= 2
    /\ \E i \in 1..Len(classes) : Cardinality(classes[i]) >= 2
    /\ \E s, t \in Alcancaveis(afd) :
          s \in afd.estados_finais /\ t \notin afd.estados_finais

-----------------------------------------------------------------------------
(* C4 *)

\* C4 (determinism): the automaton minimizar returns does not depend on which
\* member of each class list(classe)[0] picks: every choice of representatives
\* gives the same states in the same order, the same start state, the same
\* accepting set and the same transition map.
C4_Deterministico ==
    Terminou =>
        \A rep \in Representantes(classes) :
            LET outro == construir_afd_minimizado(classes, rep,
                            afd_minimizado.estados_finais, estado_inicial,
                            transicoes, alfabeto)
            IN  outro = afd_minimizado

-----------------------------------------------------------------------------
(* C5 *)

\* C5 (malformed input is rejected): for an input whose start state, some
\* accepting state, or some transition source or destination is not in states,
\* minimizar never initialises the marking table, never returns an automaton,
\* and the only error it ends with is MalformedAutomaton.
C5_MalformadoRejeitado ==
    ~BemFormado(afd) =>
        /\ pc \in {"inicio", "etapa2", "erro"}
        /\ erro \in {"", "MalformedAutomaton"}

-----------------------------------------------------------------------------
(* C6 *)

\* C6 (transition consistency): when minimizar returns, for every class and
\* every symbol, all members of the class whose transition on the symbol is
\* defined lead into the same class (otherwise it must have failed with
\* InvariantViolation instead of returning).
C6_TransicoesConsistentes ==
    Terminou =>
        \A i \in 1..Len(classes) : \A a \in Range(alfabeto) :
            \A r1, r2 \in classes[i] :
                (Destino(transicoes, r1, a) # NONE /\ Destino(transicoes, r2, a) # NONE)
                => IndiceDaClasse(classes, Destino(transicoes, r1, a))
                   = IndiceDaClasse(classes, Destino(transicoes, r2, a))

-----------------------------------------------------------------------------
(* C7 *)

\* C7 (injective class names): when minimizar returns, no two distinct classes
\* have the same name (otherwise it must have failed with NameCollision
\* instead of returning).
C7_NomesInjetivos ==
    Terminou =>
        \A i, j \in 1..Len(classes) :
            classes[i] # classes[j] =>
                afd_minimizado.estados[i] # afd_minimizado.estados[j]

-----------------------------------------------------------------------------
(* C8 *)

\* all states reachable, any two distinct states told apart by some word
JaMinimo(A) ==
    /\ Range(A.estados) \subseteq Alcancaveis(A)
    /\ \A s, t \in Range(A.estados) :
          s # t => Distinguiveis(A.transicoes, A.estados_finais, A.alfabeto, s, t)

\* C8 (idempotence): for an already-minimal input, minimizar returns an
\* automaton with as many states as the input, every class is a singleton, and
\* start state, accepting set and transitions are those of the input under the
\* renaming q -> '{q}'.
C8_Idempotente ==
    (Terminou /\ JaMinimo(afd)) =>
        /\ Len(afd_minimizado.estados) = Len(afd.estados)
        /\ \A i \in 1..Len(classes) : Cardinality(classes[i]) = 1
        /\ afd_minimizado.estado_inicial = nome_classe({afd.estado_inicial})
        /\ Range(afd_minimizado.estados_finais)
              = {nome_classe({s}) : s \in afd.estados_finais}
        /\ \A s \in Range(afd.estados) : \A a \in Range(alfabeto) :
              Destino(afd_minimizado.transicoes, nome_classe({s}), a)
              = IF Destino(afd.transicoes, s, a) = NONE THEN NONE
                ELSE nome_classe({Destino(afd.transicoes, s, a)})

-----------------------------------------------------------------------------
(* C9 *)

\* C9 (classes match the table): after _encontrar_classes_equivalencia, two
\* distinct states are in the same class if and only if their pair is
\* unmarked in the final table.
C9_ClassesConformeTabela ==
    ClassesEncontradas =>
        \A par \in DOMAIN tabela_marcacao :
            (IndiceDaClasse(classes, par[1]) = IndiceDaClasse(classes, par[2]))
            <=> ~tabela_marcacao[par]

-----------------------------------------------------------------------------
(* C10 *)

\* the unordered pairs of distinct states of S with exactly one accepting state
ParesBase(S, finais) ==
    {{s, t} : s \in S \cap finais, t \in S \ finais}

\* the unordered pairs the rule marks given the marked set M: on some symbol
\* both moves are defined, differ, and their pair is in M
ParesPelaRegra(S, trans, alf, M) ==
    {P \in {{s, t} : s, t \in S} :
        /\ Cardinality(P) = 2
        /\ \E a \in Range(alf) :
              LET D == {Destino(trans, s, a) : s \in P}
              IN  NONE \notin D /\ Cardinality(D) = 2 /\ D \in M}

\* the least set that contains ParesBase and is closed under the rule
RECURSIVE MenorPontoFixo(_, _, _, _)
MenorPontoFixo(S, trans, alf, M) ==
    LET mais == M \cup ParesPelaRegra(S, trans, alf, M)
    IN  IF mais = M THEN M ELSE MenorPontoFixo(S, trans, alf, mais)

ParesMarcados(tab) == {{par[1], par[2]} : par \in {x \in DOMAIN tab : tab[x]}}

Inverter(s) == [i \in 1..Len(s) |-> s[Len(s) + 1 - i]]

\* the passes of _marcar_pares_iterativamente run to the end with the pairs
\* scanned in the order chaves and the symbols in the order alf
RECURSIVE PontoFixoNaOrdem(_, _, _, _, _)
PontoFixoNaOrdem(chaves, tab, lista, trans, alf) ==
    LET depois == VarrerPares(chaves, 1, tab, lista, trans, alf)
    IN  IF depois = tab THEN tab
        ELSE PontoFixoNaOrdem(chaves, depois, lista, trans, alf)

Convergiu == (pc = "iterar" /\ ~houve_mudanca) \/ pc \in {"etapa4", "fim"}

-----------------------------------------------------------------------------
(* C11 *)

NumeroDePares(n) == (n * (n - 1)) \div 2

MarcadosDeNovo(antes, depois) ==
    {par \in DOMAIN antes : ~antes[par] /\ depois[par]}

NoLaco == pc = "iterar"

\* C11 (termination of the marking fixpoint): the loop of
\* _marcar_pares_iterativamente is eventually left; a pass that marks no
\* previously unmarked pair lowers houve_mudanca and so is the last one, every
\* other pass marks at least one such pair; and the number of passes never
\* exceeds the number of pairs C(n,2) of the table plus one.
C11_LacoTermina ==
    /\ <>Convergiu
    /\ [](NoLaco =>
            /\ Len(tabela_chaves) = NumeroDePares(Len(estados))
            /\ iteracao <= NumeroDePares(Len(estados)) + 1)
    /\ [][(NoLaco /\ iteracao' = iteracao + 1) =>
            (houve_mudanca' <=>
                MarcadosDeNovo(tabela_marcacao, tabela_marcacao') # {})]_vars

\* the loop ended after a first pass that marked a pair the trivial marking
\* had left unmarked and a second pass that marked nothing
C11_Testemunha ==
    /\ NoLaco
    /\ ~houve_mudanca
    /\ iteracao = 2
    /\ MarcadosDeNovo(MarcarTriviais([par \in DOMAIN tabela_marcacao |-> FALSE],
                                     estados_finais),
                      tabela_marcacao) # {}

-----------------------------------------------------------------------------
(* C12 *)

\* the pairs (estados[i], estados[j]) with i < j
UniversoDePares(lista) ==
    {<<lista[x[1]], lista[x[2]]>> :
        x \in {y \in (1..Len(lista)) \X (1..Len(lista)) : y[1] < y[2]}}

TabelaCriada == pc \in {"triviais", "exibir", "iterar", "etapa4", "fim"}

\* C12 (monotonic marking over a fixed pair universe): right after
\* _inicializar_tabela the keys of the table are exactly the C(n,2) pairs
\* (estados[i], estados[j]) with i < j over the reachable states, all false;
\* in every later step the key set stays the same and a pair whose flag is
\* true keeps it.
C12_MarcacaoMonotona ==
    /\ [](pc = "triviais" =>
            /\ DOMAIN tabela_marcacao = UniversoDePares(estados)
            /\ Range(tabela_chaves) = UniversoDePares(estados)
            /\ Len(tabela_chaves) = NumeroDePares(Len(estados))
            /\ Cardinality(DOMAIN tabela_marcacao) = NumeroDePares(Len(estados))
            /\ \A par \in DOMAIN tabela_marcacao : ~tabela_marcacao[par])
    /\ [][TabelaCriada =>
            /\ DOMAIN tabela_marcacao' = DOMAIN tabela_marcacao
            /\ tabela_chaves' = tabela_chaves
            /\ \A par \in DOMAIN tabela_marcacao :
                  tabela_marcacao[par] => tabela_marcacao'[par]]_vars

\* a pass of the loop has just marked a pair of a table of three pairs or more
\* in which a pair with one accepting state was marked before
C12_Testemunha ==
    /\ NoLaco
    /\ iteracao = 1
    /\ houve_mudanca
    /\ Len(tabela_chaves) >= 3
    /\ \E par \in DOMAIN tabela_marcacao :
          /\ tabela_marcacao[par]
          /\ (par[1] \in estados_finais) # (par[2] \in estados_finais)


-----------------------------------------------------------------------------
(* C13 *)

Definida(e, simbolo) == <<e, simbolo>> \in DOMAIN transicoes

MesmoStatus(par) == (par[1] \in estados_finais) = (par[2] \in estados_finais)

\* on the symbol both moves are defined and differ, and the pair of the two
\* destinations is another pair, marked in tab
JustificaMarca(tab, par, simbolo) ==
    /\ Definida(par[1], simbolo)
    /\ Definida(par[2], simbolo)
    /\ LET d1 == transicoes[<<par[1], simbolo>>]
           d2 == transicoes[<<par[2], simbolo>>]
       IN  /\ d1 # d2
           /\ {d1, d2} # {par[1], par[2]}
           /\ \E dest \in DOMAIN tab : {dest[1], dest[2]} = {d1, d2} /\ tab[dest]

SemSimboloComum(par) ==
    \A simbolo \in Range(alfabeto) :
        ~Definida(par[1], simbolo) \/ ~Definida(par[2], simbolo)

\* C13 (partial transitions: skip, do not distinguish): every pair a pass of
\* _marcar_pares_iterativamente marks has a symbol on which both moves are
\* defined, differ and lead to a marked pair, so a symbol with an undefined
\* move never marks a pair; and when the loop has ended every pair of two
\* accepting or two non-accepting states that have no symbol with both moves
\* defined is unmarked.
C13_PularIndefinidas ==
    /\ [][(NoLaco /\ iteracao' = iteracao + 1) =>
            \A par \in MarcadosDeNovo(tabela_marcacao, tabela_marcacao') :
                \E simbolo \in Range(alfabeto) :
                    JustificaMarca(tabela_marcacao', par, simbolo)]_vars
    /\ [](Convergiu =>
            \A par \in DOMAIN tabela_marcacao :
                (MesmoStatus(par) /\ SemSimboloComum(par)) => ~tabela_marcacao[par])

\* the loop has ended with two states of the same accepting status unmarked
\* that have no symbol with both moves defined, although on some symbol one
\* of them moves and the other does not, and with another pair of the same
\* accepting status marked
C13_Testemunha ==
    /\ Convergiu
    /\ \E par \in DOMAIN tabela_marcacao :
          /\ MesmoStatus(par)
          /\ SemSimboloComum(par)
          /\ \E simbolo \in Range(alfabeto) :
                Definida(par[1], simbolo) # Definida(par[2], simbolo)
          /\ ~tabela_marcacao[par]
    /\ \E par \in DOMAIN tabela_marcacao : MesmoStatus(par) /\ tabela_marcacao[par]

-----------------------------------------------------------------------------
(* C14 *)

\* the entries of trans whose source is in S
RestritaA(trans, S) == [x \in {y \in DOMAIN trans : y[1] \in S} |-> trans[x]]

\* C14 (reachability projection): for an input whose start state, accepting
\* states and transition sources and destinations are all among its states,
\* once _remover_estados_inalcancaveis has run,
\* estados is the input sequence of states, in the same order, restricted to
\* the states reachable from the start state by defined transitions on
\* alphabet symbols, the start state among them; estados_finais is the input
\* accepting set intersected with the reachable set; transicoes holds exactly
\* the input entries whose source is reachable; and every destination in
\* transicoes is one of estados.
C14_ProjecaoAlcancaveis ==
    (BemFormado(afd) /\ pc # "inicio") =>
        /\ estados = SelectSeq(afd.estados, LAMBDA e : e \in Alcancaveis(afd))
        /\ estado_inicial \in Range(estados)
        /\ estados_finais = afd.estados_finais \cap Alcancaveis(afd)
        /\ transicoes = RestritaA(afd.transicoes, Alcancaveis(afd))
        /\ \A x \in DOMAIN transicoes : transicoes[x] \in Range(estados)

=============================================================================
